---- MODULE Spec2Model ----
(***************************************************************************)
(* A model of src/src/preload.py: the disk-image surgery (sfdisk layout    *)
(* rewrite, dd block migration, copy-back), the ext4 / btrfs resize, the   *)
(* mount / losetup / docker "context managers" and the orchestration in    *)
(* main() and preload().                                                   *)
(*                                                                         *)
(* The script is one sequential thread: pc is its position.  Every call of *)
(* an external tool (the `sh` commands) is one step whose outcome the      *)
(* environment picks: it returns, or it raises ErrorReturnCode, which no   *)
(* caller catches except expand_ext4 around e2fsck.  The docker daemon is  *)
(* the one concurrent process (dockerd is started with _bg=True).          *)
(*                                                                         *)
(* A file is a record [size, table, data]: size in bytes, table the        *)
(* partition table held in sector 0, data[s + 1] the content of sector s   *)
(* (0 is a zero-filled sector).  Sequences are 1-based, sectors 0-based.   *)
(***************************************************************************)
EXTENDS Integers, Sequences, FiniteSets, TLC

\* ------------------------------------------------------------------ bounds
\* Sectors of the image /img/resin.img as the run finds it (sector 0 holds
\* the partition table).
NSectors == 6

\* The most partitions the image's table holds.
MaxParts == 3

\* The most sectors the container asks the image to grow by.
MaxAddSectors == 2

\* ------------------------------------------------------- program constants
SECTOR_SIZE == 512

\* sfdisk -d prints five lines before the first partition line (label,
\* label-id, device, unit and a blank line), so that partition k is line
\* HeaderLines + k - 1 of the dump, counted from 0 as the code counts.
HeaderLines == 5

\* lines[6]: the line whose size field grows ("the 2nd partition").
GrowLine == 6

\* range(7, len(lines)): the first line whose start field is moved.
FirstShiftedLine == 7

\* offsets_and_sizes[:2] / [2:]: the partitions copied without a shift.
UnshiftedParts == 2

\* The number of the partition line GrowLine holds.
GrowIndex == GrowLine - HeaderLines + 1

\* ------------------------------------------------------- sector arithmetic
Min(a, b) == IF a < b THEN a ELSE b

\* Sectors needed to hold n bytes (the last one may be partial).
SectorsOf(n) == (n + SECTOR_SIZE - 1) \div SECTOR_SIZE

\* A round_to_sector_size that adds a sector to every size.
round_adding_sector(size) == (size \div SECTOR_SIZE + 1) * SECTOR_SIZE

\* The value round_to_sector_size returns: sectors = size / sector_size is a
\* float, is_integer() exactly when 512 divides size.
round_to_sector_size(size) ==
  LET sectors == size \div SECTOR_SIZE
  IN  IF size % SECTOR_SIZE # 0
        THEN (sectors + 1) * SECTOR_SIZE
        ELSE sectors * SECTOR_SIZE

\* The type of that value: when sectors.is_integer(), sectors stays the
\* float the division made and sectors * sector_size is a float; otherwise
\* floor(sectors) + 1 is an int and so is the product.
returns_float(size) == size % SECTOR_SIZE = 0

\* resize_rootfs: additional_sectors = additional_space // SECTOR_SIZE
additional_sectors_of(additional_space) == additional_space \div SECTOR_SIZE

\* resize_rootfs: size = file_size(image) + additional_space
new_size_of(old_size, additional_space) == old_size + additional_space

\* ------------------------------------------------------------------- files
NoFile == [size |-> 0, table |-> << >>, data |-> << >>]

Zeros(n) == [i \in 1..n |-> 0]

\* Every sector of the image the run starts from holds its own mark.
OrigData(n) == [i \in 1..n |-> i]

\* tmp.truncate(size): a new file of `size` bytes, all zero, no table.
Truncated(size) ==
  [size |-> size, table |-> << >>, data |-> Zeros(SectorsOf(size))]

\* The extents from sector lo on, within n sectors.
Extents(lo, n) ==
  {e \in [start : lo..(n - 1), size : 1..(n - 1)] : e.start + e.size <= n}

End(p) == p.start + p.size

\* A partition table as the data model states it: starts strictly increase
\* with the index, extents do not overlap and lie within n sectors.
TableValid(t, n) ==
  /\ \A i \in 1..Len(t) : t[i].start >= 1 /\ t[i].size >= 1 /\ End(t[i]) <= n
  /\ \A i \in 1..(Len(t) - 1) : End(t[i]) <= t[i + 1].start

\* The valid tables of at most k partitions placed from sector lo on.
RECURSIVE TablesFrom(_, _, _)
TablesFrom(lo, n, k) ==
  IF k = 0 THEN {<< >>}
  ELSE {<< >>} \cup
       UNION {{<<p>> \o t : t \in TablesFrom(p.start + p.size, n, k - 1)} :
                p \in Extents(lo, n)}

\* The tables of an image of n sectors: one to MaxParts partitions.
Tables(n) == {t \in TablesFrom(1, n, MaxParts) : t # << >> /\ TableValid(t, n)}

\* ------------------------------------------------- sfdisk script (the text)
\* A line of `sfdisk -d`: a header line, or a partition line
\*   <dev><n> : start= <start>, size= <size>, type=...
\* startSep / sizeSep say whether the number is followed by "," as the
\* patterns "(.*start=\s*)(\d+)(,.*)" and "(.*size=\s*)(\d+)(,.*)" require.
HeaderLine(k) == [kind |-> "hdr", n |-> k, start |-> 0, size |-> 0,
                  startSep |-> FALSE, sizeSep |-> FALSE]

PartLine(k, p) == [kind |-> "part", n |-> k, start |-> p.start,
                   size |-> p.size, startSep |-> TRUE, sizeSep |-> TRUE]

\* sfdisk(d=image).stdout.decode("utf8").strip().split("\n")
SfdiskDump(t) ==
  [i \in 1..(HeaderLines + Len(t)) |->
     IF i <= HeaderLines THEN HeaderLine(i)
     ELSE PartLine(i - HeaderLines, t[i - HeaderLines])]

\* A GPT image's dump has two more header lines (first-lba, last-lba).
GptHeaderLines == 7

\* sfdisk -d of an image with a GPT label.
SfdiskDumpGpt(t) ==
  [i \in 1..(GptHeaderLines + Len(t)) |->
     IF i <= GptHeaderLines THEN HeaderLine(i)
     ELSE PartLine(i - GptHeaderLines, t[i - GptHeaderLines])]

\* sfdisk(tmp.name, _in=new_layout): the table the script describes.
SfdiskRestore(lines) ==
  LET parts == SelectSeq(lines, LAMBDA l : l.kind = "part")
  IN  [i \in 1..Len(parts) |->
         [start |-> parts[i].start, size |-> parts[i].size]]

\* sub("(.*size=\s*)(\d+)(,.*)", add_size, line): only a line the pattern
\* matches is rewritten; re.sub returns any other line as it is.
sub_size(line, additional_sectors) ==
  IF line.kind = "part" /\ line.sizeSep
    THEN [line EXCEPT !.size = @ + additional_sectors]
    ELSE line

sub_start(line, additional_sectors) ==
  IF line.kind = "part" /\ line.startSep
    THEN [line EXCEPT !.start = @ + additional_sectors]
    ELSE line

\* A rewriter whose start loop begins one line early (range(6, ...)): it
\* also moves the grown partition itself.
rewrite_shifting_grown(lines, additional_sectors) ==
  [i \in 1..Len(lines) |->
     IF i - 1 = GrowLine
       THEN sub_start(sub_size(lines[i], additional_sectors),
                      additional_sectors)
     ELSE IF i - 1 >= FirstShiftedLine
       THEN sub_start(lines[i], additional_sectors)
     ELSE lines[i]]

\* resize_rootfs_get_sfdisk_script, lines 360-366: lines[6] (0-based) gets
\* its size increased, lines[7:] their start.  Defined when lines[6] exists.
resize_rootfs_get_sfdisk_script(lines, additional_sectors) ==
  [i \in 1..Len(lines) |->
     IF i - 1 = GrowLine
       THEN sub_size(lines[i], additional_sectors)
     ELSE IF i - 1 >= FirstShiftedLine
       THEN sub_start(lines[i], additional_sectors)
     ELSE lines[i]]

\* lines[6] raises IndexError on a dump of fewer than 7 lines.
HasGrowLine(lines) == Len(lines) > GrowLine

\* ------------------------------------------------------ parted -m (the text)
\* parted -s -m image unit s p: "BYT;", the device line, then one line
\* "<n>:<start>s:<end>s:<size>s:..." per partition.
PartedPrint(t) ==
  [i \in 1..(2 + Len(t)) |->
     IF i <= 2
       THEN [digit |-> FALSE, start |-> 0, size |-> 0]
       ELSE [digit |-> TRUE, start |-> t[i - 2].start, size |-> t[i - 2].size]]

\* get_offsets_and_sizes: the (offset, size) of every line that starts with
\* a digit, in the order printed.
get_offsets_and_sizes(t) ==
  LET lines == SelectSeq(PartedPrint(t), LAMBDA l : l.digit)
  IN  [i \in 1..Len(lines) |-> [start |-> lines[i].start, size |-> lines[i].size]]

\* list[i] as Python indexes a list: i counts from 0, a negative i from the
\* end; IndexError outside -len..len-1.
InRange(list, i) == i >= -Len(list) /\ i < Len(list)

PyIndex(list, i) == list[(IF i < 0 THEN i + Len(list) ELSE i) + 1]

\* get_offset_and_size: get_offsets_and_sizes(image)[partition - 1]; the
\* number parted prints at the head of a line is not read.
get_offset_and_size(t, partition) ==
  PyIndex(get_offsets_and_sizes(t), partition - 1)

\* -------------------------------------------------------------------- dd
\* dd if=src of=dst bs=512 conv=notrunc skip= seek= count=: `count` sectors
\* read at `skip` are written at `seek`; dst keeps its size when the write
\* ends inside it.
DdData(src, dst, skip, seek, count) ==
  [s \in 1..(IF seek + count > Len(dst) THEN seek + count ELSE Len(dst)) |->
     IF s - 1 >= seek /\ s - 1 < seek + count /\ (s - 1 - seek + skip) < Len(src)
       THEN src[(s - 1 - seek + skip) + 1]
     ELSE IF s <= Len(dst) THEN dst[s] ELSE 0]

seek_unshifted(index, offset, additional_sectors) == offset

\* A seek that moves partitions 1 and 2 and leaves partitions 3+ in place.
seek_inverted(index, offset, additional_sectors) ==
  IF index <= UnshiftedParts THEN offset + additional_sectors ELSE offset

\* resize_rootfs, lines 384-388: partitions 1 and 2 keep their offset,
\* partitions 3+ are written additional_sectors further.
seek_of(index, offset, additional_sectors) ==
  IF index <= UnshiftedParts THEN offset ELSE offset + additional_sectors

\* ---------------------------------------------------------------- versions
\* LooseVersion: the components of the dotted version, compared as Python
\* compares lists (left to right; a proper prefix is the smaller one).
RECURSIVE ListLess(_, _)
ListLess(a, b) ==
  IF a = << >> THEN b # << >>
  ELSE IF b = << >> THEN FALSE
  ELSE IF Head(a) # Head(b) THEN Head(a) < Head(b)
  ELSE ListLess(Tail(a), Tail(b))

LooseVersionGE(a, b) == ~ListLess(a, b)

\* The VERSION values of etc/os-release the model reads.
Versions == {<<1, 9, 5>>, <<2, 0, 0>>, <<2, 0>>}

NoVersion == << >>

\* A comparison that takes only versions above 2.0.0.
version_gt_2_of(v) == ListLess(<<2, 0, 0>>, v)

\* LooseVersion(version) >= LooseVersion("2.0.0")
version_ge_2_of(v) == LooseVersionGE(v, <<2, 0, 0>>)

\* ------------------------------------------------------------------- state
VARIABLES
  pc,                \* the line the script is at
  entry,             \* the function the run entered by: main or resize_rootfs
  exit_status,       \* the process's exit status, -1 while it runs
  flasher,           \* DETECT_FLASHER_TYPE_IMAGES and "-flasher-" in deployArtifact
  additional_space,  \* bytes to grow by
  space_is_float,    \* whether additional_space is a float
  orig,              \* /img/resin.img as the run found it
  image,             \* /img/resin.img
  tmp,               \* resize_rootfs: the NamedTemporaryFile
  size,              \* resize_rootfs: size
  additional_sectors,\* resize_rootfs: additional_sectors
  new_layout,        \* resize_rootfs: new_layout
  offsets_and_sizes, \* resize_rootfs: offsets_and_sizes
  copied,            \* resize_rootfs: partitions copied / blocks copied back
  mounts,            \* the mounts held
  loops,             \* the loop devices bound
  ext4,              \* expand_ext4: its arguments and where it returns to
  status,            \* expand_ext4: status, -1 when unset
  fsck_code,         \* the exit code of e2fsck in the running expand_ext4
  version,           \* resize_fs_copy_splash_image_and_pull: version
  daemon,            \* the dockerd process
  socket,            \* the daemon's unix socket: absent or bound
  driver,            \* resize_fs_copy_splash_image_and_pull: driver
  output,            \* start_docker_daemon: output.exit_code, -1 when unset
  polls,             \* parity of the status queries answered "not ready"
  apps_json,         \* whether apps.json was written
  log,               \* the steps taken, in order
  arg,               \* a function called on its own: its arguments
  ret                \* a function called on its own: what it returned

ctl == <<pc, exit_status>>
inp == <<entry, flasher, additional_space, space_is_float, orig>>
rs == <<size, additional_sectors, new_layout, offsets_and_sizes>>
res == <<mounts, loops>>
fs == <<ext4, status, fsck_code, version>>
dk == <<daemon, driver, socket, output, polls, apps_json>>
call == <<arg, ret>>
vars == <<ctl, inp, image, tmp, copied, rs, res, fs, dk, log, call>>

\* No function is called on its own / it has not returned.
NoArg == [none |-> TRUE]
NoRet == [none |-> TRUE]

NoCall == [image |-> "none", partition |-> 0, ret |-> "none"]

\* ceil(container_size * 1.1), of which main() hands on the
\* round_to_sector_size.
RawSizes ==
  {k * SECTOR_SIZE - d : k \in 1..MaxAddSectors, d \in {0, 1}} \cup {0}

\* Any byte count, as a direct caller of resize_rootfs may pass.
AnySizes == RawSizes \cup {k * SECTOR_SIZE + 188 : k \in 0..MaxAddSectors}

\* The image of a regular (non-flasher) run is not read sector by sector:
\* it is held as one table.
RegularTable == <<[start |-> 1, size |-> 1], [start |-> 2, size |-> 1]>>

InitCommon ==
  /\ exit_status = -1
  /\ \E t \in (IF flasher THEN Tables(NSectors) ELSE {RegularTable}) :
       orig = [size |-> NSectors * SECTOR_SIZE, table |-> t,
               data |-> OrigData(NSectors)]
  /\ image = orig
  /\ tmp = NoFile
  /\ size = 0
  /\ additional_sectors = 0
  /\ new_layout = << >>
  /\ offsets_and_sizes = << >>
  /\ copied = 0
  /\ mounts = {}
  /\ loops = {}
  /\ ext4 = NoCall
  /\ status = -1
  /\ fsck_code = -1
  /\ version = NoVersion
  /\ daemon = "Stopped"
  /\ driver = "none"
  /\ socket = "absent"
  /\ output = -1
  /\ polls = 0
  /\ apps_json = FALSE
  /\ log = << >>

\* main(), from get_device_type on.
Init ==
  /\ pc = "get_device_type"
  /\ entry = "main"
  /\ flasher \in BOOLEAN
  /\ \E r \in RawSizes :
       /\ additional_space = round_to_sector_size(r)
       /\ space_is_float = returns_float(r)
  /\ arg = NoArg
  /\ ret = NoRet
  /\ InitCommon

\* resize_rootfs(image, additional_space) called on its own.
InitResize ==
  /\ pc = "resize_rootfs"
  /\ entry = "resize_rootfs"
  /\ flasher = TRUE
  /\ additional_space \in AnySizes
  /\ space_is_float = FALSE
  /\ arg = NoArg
  /\ ret = NoRet
  /\ InitCommon

Terminal == {"done", "crashed", "exited"}

Step(from, to) ==
  /\ pc = from
  /\ pc' = to
  /\ exit_status' = IF to = "done" THEN 0
                    ELSE IF to \in {"crashed", "exited"} THEN 1
                    ELSE exit_status
  /\ log' = Append(log, from)

\* ------------------------------------------------- the context managers
\* mount_context_manager, line 92: mount_partition(...) before the yield.
mount_acquire(from, m, to) ==
  /\ Step(from, to)
  /\ mounts' = mounts \cup {m}

\* mount_context_manager, lines 94-95: umount and rmdir after the yield.
mount_release(from, m, to) ==
  /\ Step(from, to)
  /\ mounts' = mounts \ {m}

\* losetup_context_manager, line 107.
losetup_acquire(from, d, to) ==
  /\ Step(from, to)
  /\ loops' = loops \cup {d}

\* losetup_context_manager, line 109.
losetup_release(from, d, to) ==
  /\ Step(from, to)
  /\ loops' = loops \ {d}

\* ------------------------------------------------------------------ main
\* get_device_type, lines 396-398, called at line 424.
GetDeviceTypeMount ==
  /\ mount_acquire("get_device_type", "device_type", "device_type_read")
  /\ UNCHANGED <<call, inp, image, tmp, copied, rs, loops, fs, dk>>

GetDeviceTypeRead ==
  /\ Step("device_type_read", "device_type_umount")
  /\ UNCHANGED <<call, inp, image, tmp, copied, rs, res, fs, dk>>

\* A main() whose flasher branch mounts the outer image without
\* resize_rootfs.
get_device_type_umount_no_resize ==
  /\ mount_release("device_type_umount", "device_type",
                   IF flasher THEN "mount_outer" ELSE "expand_image")
  /\ UNCHANGED <<call, inp, image, tmp, copied, rs, loops, fs, dk>>

\* Lines 426-442: the flasher branch, or preload(IMAGE, ...).
GetDeviceTypeUmount ==
  /\ mount_release("device_type_umount", "device_type",
                   IF flasher THEN "resize_rootfs" ELSE "expand_image")
  /\ UNCHANGED <<call, inp, image, tmp, copied, rs, loops, fs, dk>>

\* --------------------------------------------------------- resize_rootfs
\* Lines 371-377: the new size, the sector count, the empty new image.
\* tmp.truncate(size) raises TypeError when size is a float.
ResizeRootfsBegin ==
  /\ Step("resize_rootfs", IF space_is_float THEN "crashed"
                           ELSE "get_sfdisk_script")
  /\ size' = new_size_of(image.size, additional_space)
  /\ additional_sectors' = additional_sectors_of(additional_space)
  /\ tmp' = IF space_is_float THEN tmp ELSE Truncated(size')
  /\ UNCHANGED <<call, inp, image, copied, new_layout, offsets_and_sizes, res,
                 fs, dk>>

\* Line 378: the rewritten script, or IndexError at lines[6].
GetSfdiskScript ==
  LET lines == SfdiskDump(image.table)
  IN  /\ IF HasGrowLine(lines)
           THEN /\ Step("get_sfdisk_script", "sfdisk_write")
                /\ new_layout' =
                     resize_rootfs_get_sfdisk_script(lines, additional_sectors)
           ELSE /\ Step("get_sfdisk_script", "crashed")
                /\ new_layout' = new_layout
      /\ UNCHANGED <<call, inp, image, tmp, copied, size, additional_sectors,
                     offsets_and_sizes, res, fs, dk>>

\* Line 380: sfdisk writes the new layout on the new image.
SfdiskWrite ==
  /\ Step("sfdisk_write", "get_offsets")
  /\ tmp' = [tmp EXCEPT !.table = SfdiskRestore(new_layout)]
  /\ UNCHANGED <<call, inp, image, copied, rs, res, fs, dk>>

\* Line 381: the old image's extents, in sectors.
GetOffsets ==
  /\ Step("get_offsets", "copy")
  /\ offsets_and_sizes' = get_offsets_and_sizes(image.table)
  /\ copied' = 0
  /\ UNCHANGED <<call, inp, image, tmp, size, additional_sectors, new_layout,
                 res, fs, dk>>

\* Lines 384-388: one dd per partition, in the order listed.
CopyPartition ==
  /\ pc = "copy"
  /\ copied < Len(offsets_and_sizes)
  /\ LET i == copied + 1
         p == offsets_and_sizes[i]
         seek == seek_of(i, p.start, additional_sectors)
         d == DdData(image.data, tmp.data, p.start, seek, p.size)
     IN  /\ tmp' = [tmp EXCEPT !.data = d,
                               !.size = IF (seek + p.size) * SECTOR_SIZE > @
                                          THEN (seek + p.size) * SECTOR_SIZE
                                          ELSE @]
         /\ copied' = i
  /\ UNCHANGED <<ctl, call, inp, image, rs, res, fs, dk, log>>

\* A resize_rootfs that replaces the image right after the copies, without
\* the check and resize of the grown filesystem.
call_copy_back_unchecked ==
  /\ copied = Len(offsets_and_sizes)
  /\ Step("copy", "copy_back")
  /\ UNCHANGED <<call, inp, image, tmp, copied, rs, res, fs, dk>>

\* Line 390: expand_ext4(tmp.name, 2).
CallExpandExt4Tmp ==
  /\ copied = Len(offsets_and_sizes)
  /\ Step("copy", "losetup")
  /\ ext4' = [image |-> "tmp", partition |-> UnshiftedParts, ret |-> "copy_back"]
  /\ UNCHANGED <<call, inp, image, tmp, copied, rs, res, status, fsck_code,
                 version, dk>>

\* Line 392: dd if=tmp of=image bs=512 opens image truncating it ...
CopyBackOpen ==
  /\ Step("copy_back", "copy_back_write")
  /\ image' = NoFile
  /\ copied' = 0
  /\ UNCHANGED <<call, inp, tmp, rs, res, fs, dk>>

\* ... and writes tmp to it block by block; resize_rootfs returns after the
\* last one.
CopyBackWrite ==
  /\ pc = "copy_back_write"
  /\ copied < Len(tmp.data)
  /\ copied' = copied + 1
  /\ image' = [size |-> Min(copied' * SECTOR_SIZE, tmp.size),
               table |-> IF copied = 0 THEN tmp.table ELSE image.table,
               data |-> Append(image.data, tmp.data[copied'])]
  /\ IF copied' = Len(tmp.data)
       THEN /\ pc' = IF entry = "resize_rootfs" THEN "done" ELSE "mount_outer"
            /\ exit_status' = IF entry = "resize_rootfs" THEN 0 ELSE exit_status
            /\ log' = Append(log, "copy_back_write")
       ELSE UNCHANGED <<ctl, log>>
  /\ UNCHANGED <<call, inp, tmp, rs, res, fs, dk>>

\* ------------------------------------------------------------ expand_ext4
\* Line 212: the loop device on the partition.
Losetup ==
  /\ losetup_acquire("losetup", ext4.image, "e2fsck")
  /\ UNCHANGED <<call, inp, image, tmp, copied, rs, mounts, fs, dk>>

\* e2fsck's exit codes: 0 clean, 1 and 2 corrected, 4 left uncorrected,
\* 8 operational error.
FsckCodes == {0, 1, 2, 4, 8}

\* An _ok_code that lets every exit code of e2fsck pass.
FsckOkAll == FsckCodes

\* _ok_code=[0, 1, 2]
FsckOk == {0, 1, 2}

\* Lines 215-224: e2fsck -p -f; any code outside _ok_code raises
\* ErrorReturnCode, which is answered by exit(1).
E2fsck ==
  \E code \in FsckCodes :
    /\ IF code \in FsckOk
         THEN /\ Step("e2fsck", "resize2fs")
              /\ status' = code
         ELSE /\ Step("e2fsck", "exited")
              /\ status' = status
    /\ fsck_code' = code
    /\ UNCHANGED <<call, inp, image, tmp, copied, rs, res, ext4, version, dk>>

\* What resize2fs writes in the sectors a filesystem grows into.
Claimed == -1

\* resize2fs on partition k of file f, whose filesystem held old_size
\* sectors: the rest of the partition's extent is taken into the filesystem.
Resize2fsData(f, k, old_size) ==
  [s \in 1..Len(f.data) |->
     IF /\ s - 1 >= f.table[k].start + old_size
        /\ s - 1 < End(f.table[k])
       THEN Claimed
       ELSE f.data[s]]

\* Line 225.  The new image is held sector by sector; the image preload
\* works on is not.
Resize2fs ==
  /\ Step("resize2fs", "losetup_d")
  /\ tmp' = IF ext4.image = "tmp"
              THEN [tmp EXCEPT !.data =
                      Resize2fsData(tmp, ext4.partition,
                                    offsets_and_sizes[ext4.partition].size)]
              ELSE tmp
  /\ UNCHANGED <<call, inp, image, copied, rs, res, fs, dk>>

\* Line 109, then the return to the caller; status is a local.
LosetupDetach ==
  /\ losetup_release("losetup_d", ext4.image, ext4.ret)
  /\ status' = -1
  /\ fsck_code' = -1
  /\ ext4' = NoCall
  /\ UNCHANGED <<call, inp, image, tmp, copied, rs, mounts, version, dk>>

\* ---------------------------------------------------------------- preload
\* Line 438: the flasher image's 2nd partition, which holds the inner image.
MountOuter ==
  /\ mount_acquire("mount_outer", "outer", "expand_image")
  /\ UNCHANGED <<call, inp, image, tmp, copied, rs, loops, fs, dk>>

\* expand_image, lines 196-198: zero bytes appended; f.truncate raises
\* TypeError when additional_space is a float.  The inner image of a
\* flasher run is a file in the mounted partition and is not held here.
ExpandImage ==
  /\ Step("expand_image", IF space_is_float THEN "crashed"
                          ELSE "expand_partitions")
  /\ image' = IF flasher \/ space_is_float THEN image
              ELSE [image EXCEPT
                      !.size = @ + additional_space,
                      !.data = @ \o Zeros(SectorsOf(image.size + additional_space)
                                          - Len(@))]
  /\ UNCHANGED <<call, inp, tmp, copied, rs, res, fs, dk>>

\* expand_partitions, line 207.
ExpandPartitions ==
  /\ Step("expand_partitions", "os_version_mount")
  /\ UNCHANGED <<call, inp, image, tmp, copied, rs, res, fs, dk>>

\* get_resin_os_version, lines 185-190.
OsVersionMount ==
  /\ mount_acquire("os_version_mount", "os_release", "os_version_read")
  /\ UNCHANGED <<call, inp, image, tmp, copied, rs, loops, fs, dk>>

OsVersionRead ==
  /\ Step("os_version_read", "os_version_umount")
  /\ version' \in Versions
  /\ UNCHANGED <<call, inp, image, tmp, copied, rs, res, ext4, status,
                 fsck_code, dk>>

\* A resize_fs_copy_splash_image_and_pull that goes on to the mount without
\* expand_ext4, whatever the version.
os_version_umount_no_resize ==
  /\ mount_release("os_version_umount", "os_release", "mount_storage")
  /\ UNCHANGED <<call, inp, image, tmp, copied, rs, loops, fs, dk>>

\* The return inside the with block releases the mount; then lines
\* 306-314: expand_ext4(image, 6) for 2.0.0+, nothing yet otherwise.
OsVersionUmount ==
  /\ mount_release("os_version_umount", "os_release",
                   IF version_ge_2_of(version) THEN "losetup" ELSE "mount_storage")
  /\ ext4' = IF version_ge_2_of(version)
               THEN [image |-> "image", partition |-> 6, ret |-> "mount_storage"]
               ELSE ext4
  /\ UNCHANGED <<call, inp, image, tmp, copied, rs, loops, status, fsck_code,
                 version, dk>>

\* Lines 315-317: the storage partition; driver = "aufs" for 2.0.0+.
MountStorage ==
  /\ mount_acquire("mount_storage", "storage",
                   IF version_ge_2_of(version) THEN "start_daemon"
                   ELSE "expand_btrfs")
  /\ driver' = IF version_ge_2_of(version) THEN "aufs" ELSE driver
  /\ UNCHANGED <<call, inp, image, tmp, copied, rs, loops, fs, daemon, socket,
                 output, polls, apps_json>>

\* Lines 320-322: expand_btrfs(mountpoint), then driver = "btrfs".
ExpandBtrfs ==
  /\ Step("expand_btrfs", "start_daemon")
  /\ driver' = "btrfs"
  /\ UNCHANGED <<call, inp, image, tmp, copied, rs, res, fs, daemon, socket,
                 output, polls, apps_json>>

\* ----------------------------------------------------------------- docker
\* start_docker_daemon, lines 250-252: dockerd in the background.
StartDaemon ==
  /\ Step("start_daemon", "wait_socket")
  /\ daemon' = "Running"
  /\ UNCHANGED <<call, inp, image, tmp, copied, rs, res, fs, driver, socket,
                 output, polls, apps_json>>

\* The daemon binds its socket in its own time.
DaemonBinds ==
  /\ daemon = "Running"
  /\ socket = "absent"
  /\ socket' = "bound"
  /\ UNCHANGED <<ctl, call, inp, image, tmp, copied, rs, res, fs, daemon,
                 driver, output, polls, apps_json, log>>

\* os.path.isfile: true of a regular file only, never of a socket.
isfile(s) == s = "regular"

\* Lines 253-254: while os.path.isfile(socket): inotifywait(...).
WaitSocket ==
  /\ pc = "wait_socket"
  /\ IF isfile(socket)
       THEN UNCHANGED <<ctl, log>>
       ELSE Step("wait_socket", "poll")
  /\ UNCHANGED <<call, inp, image, tmp, copied, rs, res, fs, dk>>

\* docker version: 0 when the daemon answers, 1 when it does not (or not
\* yet); with no socket to connect to it is 1.
VersionCodes(s) == IF s = "bound" THEN {0, 1} ELSE {1}

\* An ok that takes exit code 1 for ready as well.
ok_of_any(code) == code \in {0, 1}

\* Line 258: ok = output.exit_code == 0
ok_of(code) == code = 0

\* Lines 256-259: the status query, until it answers.
Poll ==
  \E code \in VersionCodes(socket) :
    /\ pc = "poll"
    /\ output' = code
    /\ IF ok_of(code)
         THEN /\ Step("poll", "write_apps_json")
              /\ polls' = polls
         ELSE /\ polls' = 1 - polls
              /\ UNCHANGED <<ctl, log>>
    /\ UNCHANGED <<call, inp, image, tmp, copied, rs, res, fs, daemon, driver,
                   socket, apps_json>>

\* Line 324, write_apps_json.
WriteAppsJson ==
  /\ Step("write_apps_json", "docker_pull")
  /\ apps_json' = TRUE
  /\ UNCHANGED <<call, inp, image, tmp, copied, rs, res, fs, daemon, driver,
                 socket, output, polls>>

\* docker_pull, line 298.
DockerPull ==
  /\ Step("docker_pull", "docker_images")
  /\ UNCHANGED <<call, inp, image, tmp, copied, rs, res, fs, dk>>

\* A docker_context_manager that leaves its scope without the kill.
docker_images_no_kill ==
  /\ Step("docker_images", "umount_storage")
  /\ UNCHANGED <<call, inp, image, tmp, copied, rs, res, fs, dk>>

\* docker_pull, line 300.
DockerImages ==
  /\ Step("docker_images", "kill_daemon")
  /\ UNCHANGED <<call, inp, image, tmp, copied, rs, res, fs, dk>>

\* docker_context_manager, lines 266-267: kill <pid>.
KillDaemon ==
  /\ Step("kill_daemon", "umount_storage")
  /\ daemon' = "Stopped"
  /\ UNCHANGED <<call, inp, image, tmp, copied, rs, res, fs, driver, socket,
                 output, polls, apps_json>>

\* Line 315's release, then the return to main.
UmountStorage ==
  /\ mount_release("umount_storage", "storage",
                   IF flasher THEN "umount_outer" ELSE "done")
  /\ UNCHANGED <<call, inp, image, tmp, copied, rs, loops, fs, dk>>

\* Line 438's release, then "Done.".
UmountOuter ==
  /\ mount_release("umount_outer", "outer", "done")
  /\ UNCHANGED <<call, inp, image, tmp, copied, rs, loops, fs, dk>>

\* ------------------------------------------------------------- exceptions
\* Where an external command (or a file operation) runs: it may raise, and
\* nothing catches it.  e2fsck's failure is handled in E2fsck; at "copy" it
\* is a dd that raises, while one is left to run.
Raising ==
  {"get_device_type", "device_type_read", "device_type_umount",
   "get_sfdisk_script", "sfdisk_write", "get_offsets", "copy", "losetup",
   "resize2fs", "losetup_d", "copy_back", "copy_back_write", "mount_outer",
   "expand_image", "expand_partitions", "os_version_mount",
   "os_version_read", "os_version_umount", "mount_storage", "expand_btrfs",
   "poll", "write_apps_json", "docker_pull", "docker_images", "kill_daemon",
   "umount_storage", "umount_outer"}

\* The uncaught exception ends the process with status 1.  The context
\* managers have no try/finally: nothing after their yield runs.
Raise ==
  /\ pc \in Raising
  /\ pc = "copy" => copied < Len(offsets_and_sizes)
  /\ pc' = "crashed"
  /\ exit_status' = 1
  /\ log' = Append(log, "raise")
  /\ UNCHANGED <<call, inp, image, tmp, copied, rs, res, fs, dk>>

\* ------------------------------------------- functions called on their own
\* A call of one function: pc is "call", then "returned" or "raised".
InitCall(f) ==
  /\ pc = "call"
  /\ entry = f
  /\ flasher = FALSE
  /\ additional_space = 0
  /\ space_is_float = FALSE
  /\ ret = NoRet
  /\ InitCommon

Return(value) ==
  /\ pc' = "returned"
  /\ ret' = [value |-> value]

\* An exception leaves the function; there is no return value.
RaiseOut ==
  /\ pc' = "raised"
  /\ ret' = ret

\* resize_rootfs_get_sfdisk_script(image, additional_sectors), the image
\* being any image sfdisk can dump, with a DOS or a GPT label.
InitGetSfdiskScript ==
  /\ arg \in [lines : {SfdiskDump(t) : t \in Tables(NSectors)} \cup
                       {SfdiskDumpGpt(t) : t \in Tables(NSectors)},
               additional_sectors : 0..MaxAddSectors]
  /\ InitCall("resize_rootfs_get_sfdisk_script")

\* Lines 352-366; IndexError at lines[6] on a dump of fewer than 7 lines.
CallGetSfdiskScript ==
  /\ pc = "call"
  /\ entry = "resize_rootfs_get_sfdisk_script"
  /\ IF HasGrowLine(arg.lines)
       THEN Return(resize_rootfs_get_sfdisk_script(arg.lines,
                                                   arg.additional_sectors))
       ELSE RaiseOut
  /\ UNCHANGED <<exit_status, inp, arg, image, tmp, copied, rs, res, fs, dk, log>>

\* The numbers the partitions of a table of k entries may carry: they
\* increase with the position, and there may be gaps.
Numberings(k) ==
  {f \in [1..k -> 1..(MaxParts + 1)] : \A i \in 1..(k - 1) : f[i] < f[i + 1]}

\* get_offset_and_size(image, partition) for any image and any integer.
InitGetOffsetAndSize ==
  /\ \E t \in Tables(NSectors) :
       arg \in [table : {t}, nums : Numberings(Len(t)),
                partition : (-MaxParts)..(MaxParts + 2)]
  /\ InitCall("get_offset_and_size")

\* Line 77; IndexError when partition - 1 is outside the list.
CallGetOffsetAndSize ==
  /\ pc = "call"
  /\ entry = "get_offset_and_size"
  /\ IF InRange(get_offsets_and_sizes(arg.table), arg.partition - 1)
       THEN Return(get_offset_and_size(arg.table, arg.partition))
       ELSE RaiseOut
  /\ UNCHANGED <<exit_status, inp, arg, image, tmp, copied, rs, res, fs, dk, log>>

\* The byte counts round_to_sector_size is called on.
ByteCounts == 0..((MaxAddSectors + 1) * SECTOR_SIZE)

\* round_to_sector_size(size), then round_to_sector_size of the result.
InitRound ==
  /\ arg \in [size : ByteCounts]
  /\ InitCall("round_to_sector_size")

CallRound ==
  /\ pc = "call"
  /\ entry = "round_to_sector_size"
  /\ Return(round_to_sector_size(arg.size))
  /\ UNCHANGED <<exit_status, inp, arg, image, tmp, copied, rs, res, fs, dk, log>>

CallRoundAgain ==
  /\ pc = "returned"
  /\ entry = "round_to_sector_size"
  /\ pc' = "returned_again"
  /\ arg' = [size |-> ret.value]
  /\ ret' = [value |-> round_to_sector_size(ret.value)]
  /\ UNCHANGED <<exit_status, inp, image, tmp, copied, rs, res, fs, dk, log>>

NextRound == CallRound \/ CallRoundAgain

\* --------------------------------------------------------- specifications
\* The steps of resize_rootfs (and of expand_ext4, which it calls).
NextResize ==
  \/ ResizeRootfsBegin
  \/ GetSfdiskScript
  \/ SfdiskWrite
  \/ GetOffsets
  \/ CopyPartition
  \/ CallExpandExt4Tmp
  \/ Losetup
  \/ E2fsck
  \/ Resize2fs
  \/ LosetupDetach
  \/ CopyBackOpen
  \/ CopyBackWrite
  \/ Raise

Next ==
  \/ GetDeviceTypeMount
  \/ GetDeviceTypeRead
  \/ GetDeviceTypeUmount
  \/ NextResize
  \/ MountOuter
  \/ ExpandImage
  \/ ExpandPartitions
  \/ OsVersionMount
  \/ OsVersionRead
  \/ OsVersionUmount
  \/ MountStorage
  \/ ExpandBtrfs
  \/ StartDaemon
  \/ DaemonBinds
  \/ WaitSocket
  \/ Poll
  \/ WriteAppsJson
  \/ DockerPull
  \/ DockerImages
  \/ KillDaemon
  \/ UmountStorage
  \/ UmountOuter

\* main().
Spec == Init /\ [][Next]_vars

\* main(); the interpreter runs the script on, and the daemon runs.
FairSpec == Spec /\ WF_vars(Next)

\* resize_rootfs called on its own, with any byte count.
SpecResize == InitResize /\ [][NextResize]_vars

\* resize_rootfs_get_sfdisk_script called on its own.
SpecGetSfdiskScript == InitGetSfdiskScript /\ [][CallGetSfdiskScript]_vars

\* round_to_sector_size called on its own, twice.
SpecRound == InitRound /\ [][NextRound]_vars

\* get_offset_and_size called on its own.
SpecGetOffsetAndSize == InitGetOffsetAndSize /\ [][CallGetOffsetAndSize]_vars

\* ------------------------------------------------------------- the claims
InLog(e) == \E i \in 1..Len(log) : log[i] = e

\* The place of the last e in the log, 0 when there is none.
LastPos(e) ==
  IF InLog(e) THEN CHOOSE i \in 1..Len(log) :
                     log[i] = e /\ \A j \in (i + 1)..Len(log) : log[j] # e
  ELSE 0

\* The place of the first e in the log, 0 when there is none.
FirstPos(e) ==
  IF InLog(e) THEN CHOOSE i \in 1..Len(log) :
                     log[i] = e /\ \A j \in 1..(i - 1) : log[j] # e
  ELSE 0

\* a and b were logged, the first a before the first b.
FirstBefore(a, b) == InLog(a) /\ InLog(b) /\ FirstPos(a) < FirstPos(b)

\* a was logged, and its last entry lies before the last entry of b.
Before(a, b) == InLog(a) /\ LastPos(a) < LastPos(b)

DestStart(i) ==
  IF i <= GrowIndex THEN orig.table[i].start
  ELSE orig.table[i].start + additional_sectors

\* Sector s of the new image lies in the destination of some partition.
InDest(s) ==
  \E i \in 1..Len(orig.table) :
    s >= DestStart(i) /\ s < DestStart(i) + orig.table[i].size

\* The partitions are all copied and the filesystem tools have not yet
\* touched the new image.
Migrated ==
  /\ ext4.image = "tmp"
  /\ pc \in {"losetup", "e2fsck"}

\* C2: once the partitions are copied, the new image holds every partition's
\* original extent sector for sector, at the old start for the partitions up
\* to the grown one and additional_sectors further for the later ones;
\* nothing else is written: every other sector, the grown partition's added
\* sectors among them, is still zero.
C2_ContentPreserved ==
  Migrated =>
    /\ \A i \in 1..Len(orig.table) :
         \A j \in 0..(orig.table[i].size - 1) :
           /\ DestStart(i) + j < Len(tmp.data)
           /\ tmp.data[DestStart(i) + j + 1] =
                orig.data[orig.table[i].start + j + 1]
    /\ \A s \in 0..(Len(tmp.data) - 1) :
         ~InDest(s) => tmp.data[s + 1] = 0
    /\ \A s \in End(orig.table[GrowIndex])..
                (End(orig.table[GrowIndex]) + additional_sectors - 1) :
         tmp.data[s + 1] = 0

\* C2's case: a third partition was moved by a growth of at least a sector.
C2_Witness ==
  /\ Migrated
  /\ Len(orig.table) = 3
  /\ additional_sectors >= 1
  /\ tmp.data[orig.table[3].start + additional_sectors + 1] =
       orig.data[orig.table[3].start + 1]

\* dd has opened the image for the copy-back (and truncated it).
ReplaceStarted == InLog("copy_back")

\* expand_ext4(tmp.name, 2) has returned: the new layout is written, the
\* partitions are copied, the grown filesystem is checked and resized.
MigrationSucceeded ==
  /\ FirstBefore("sfdisk_write", "copy")
  /\ FirstBefore("copy", "e2fsck")
  /\ FirstBefore("e2fsck", "resize2fs")
  /\ FirstBefore("resize2fs", "losetup_d")

\* C3 as stated: in a flasher run the image is the original one until the
\* migration has succeeded, and a run that failed, at whichever step, leaves
\* the image either as it was or as the complete new image.
C3_ReplaceAtomic ==
  flasher =>
    /\ ~MigrationSucceeded => image = orig
    /\ pc \in {"crashed", "exited"} => image = orig \/ image = tmp

\* C3, amended: the image is the original one until dd opens it for the
\* copy-back, which happens only after the migration has succeeded; a run
\* that fails before that leaves the image untouched, and a run that
\* returns from resize_rootfs leaves the complete new image.
C3_UntouchedUntilReplace ==
  flasher =>
    /\ ~ReplaceStarted => image = orig
    /\ ReplaceStarted =>
         MigrationSucceeded /\ FirstBefore("losetup_d", "copy_back")
    /\ InLog("copy_back_write") => image = tmp

\* C3's case: e2fsck could not repair the new image's filesystem and the run
\* ended inside resize_rootfs, the copies made.
C3_Witness ==
  /\ pc = "exited"
  /\ ext4.image = "tmp"
  /\ copied = Len(orig.table)
  /\ image = orig

\* C4 as stated: no run ends with a mount or a loop device still held.
C4_ReleasedAtExit ==
  pc \in Terminal => mounts = {} /\ loops = {}

\* C5: resize2fs runs exactly when the e2fsck before it returned 0, 1 or 2;
\* on any other code the run ends there with exit status 1, e2fsck being the
\* last step it took: no resize, mount, daemon start, pull or metadata
\* write follows.
C5_ResizeIffChecked ==
  /\ pc = "resize2fs" => fsck_code \in {0, 1, 2}
  /\ fsck_code \in {0, 1, 2} =>
       \/ pc = "resize2fs"
       \/ InLog("resize2fs") /\ LastPos("e2fsck") < LastPos("resize2fs")
       \/ pc = "crashed" /\ log[Len(log) - 1] = "e2fsck"
  /\ fsck_code \notin {-1, 0, 1, 2} =>
       /\ pc = "exited"
       /\ exit_status = 1
       /\ log[Len(log)] = "e2fsck"
       /\ daemon = "Stopped"
       /\ ~apps_json
       /\ "storage" \notin mounts
  /\ pc = "exited" => fsck_code \notin {-1, 0, 1, 2}

\* C5's case: e2fsck left errors uncorrected (exit code 4) and the run ended.
C5_Witness ==
  /\ fsck_code = 4
  /\ pc = "exited"
  /\ exit_status = 1

\* C6 as stated: a readiness poll does not go on forever; whenever the run
\* is polling it later leaves the poll (ready, or failed).
C6_PollEnds == (pc = "poll") ~> (pc # "poll")

\* C7 as stated: the daemon is started, its socket awaited, its status
\* queried until ready, the image pulled, the images listed and the daemon
\* killed, in that order; and a run that started the daemon has terminated
\* it by the time it ends.
C7_Lifecycle ==
  /\ InLog("wait_socket") => Before("start_daemon", "wait_socket")
  /\ InLog("poll") => Before("wait_socket", "poll")
  /\ InLog("docker_pull") => Before("poll", "docker_pull")
  /\ InLog("docker_images") => Before("docker_pull", "docker_images")
  /\ InLog("kill_daemon") => Before("docker_images", "kill_daemon")
  /\ pc \in Terminal => daemon = "Stopped"

\* The step that resizes the storage filesystem, by the variant chosen.
ResizeStep == IF version_ge_2_of(version) THEN "resize2fs" ELSE "expand_btrfs"

\* C8: the image file is grown, then the partitions expanded, then the
\* version read, then the storage filesystem resized (resize2fs on the loop
\* device, or btrfs resize on the mountpoint), then the daemon started, then
\* the image pulled; expand_ext4 on the storage partition begins only after
\* the partitions are expanded.
C8_StepsInOrder ==
  /\ InLog("expand_partitions") => Before("expand_image", "expand_partitions")
  /\ InLog("os_version_read") => Before("expand_partitions", "os_version_read")
  /\ ext4.image = "image" => InLog("expand_partitions")
  /\ InLog("expand_btrfs") => Before("expand_partitions", "expand_btrfs")
  /\ InLog("start_daemon") =>
       /\ Before("os_version_read", ResizeStep)
       /\ Before(ResizeStep, "start_daemon")
  /\ InLog("docker_pull") => Before("start_daemon", "docker_pull")

\* C8's cases: a run of either variant that got as far as the pull.
C8_Witness ==
  /\ pc = "done"
  /\ InLog("docker_pull")
  /\ version_ge_2_of(version)
  /\ ~flasher

\* C9 as stated: apps.json is written only once the pull has completed, and
\* before the storage partition is unmounted; a run whose pull failed has
\* written no apps.json.
C9_MetadataAfterPull ==
  /\ apps_json => FirstBefore("docker_pull", "write_apps_json")
  /\ InLog("umount_storage") => Before("write_apps_json", "umount_storage")

\* C10 as stated: when resize_rootfs returns, the image is additional_sectors
\* sectors of 512 bytes larger than it was.
C10_SizeBySectors ==
  pc = "done" =>
    image.size = orig.size + additional_sectors * SECTOR_SIZE

\* The line matches "(.*size=\s*)(\d+)(,.*)" / "(.*start=\s*)(\d+)(,.*)".
MatchesSize(line) == line.kind = "part" /\ line.sizeSep
MatchesStart(line) == line.kind = "part" /\ line.startSep

\* C11 as stated: the rewriter returns a script only when the line expected
\* to hold the grown partition's size matches the size pattern and every
\* line after it matches the start pattern; otherwise it fails.
C11_NoLineSkipped ==
  (entry = "resize_rootfs_get_sfdisk_script" /\ pc = "returned") =>
    /\ MatchesSize(arg.lines[GrowLine + 1])
    /\ \A i \in (FirstShiftedLine + 1)..Len(arg.lines) :
         MatchesStart(arg.lines[i])

\* C12 as stated: resize_rootfs goes on with a sector count only when the
\* byte count is a multiple of 512, the count times 512 being the growth
\* asked for; for any other byte count the conversion fails.
C12_ExactConversion ==
  InLog("resize_rootfs") =>
    /\ additional_space % SECTOR_SIZE = 0
    /\ additional_sectors * SECTOR_SIZE = additional_space

OfflineResized ==
  /\ InLog("os_version_umount")
  /\ LastPos("resize2fs") > LastPos("os_version_umount")

\* btrfs filesystem resize max has run on the mountpoint.
OnlineResized == InLog("expand_btrfs")

\* The driver of the variant the version selects.
DriverOf(v) == IF version_ge_2_of(v) THEN "aufs" ELSE "btrfs"

C15_MismatchIsReady == output \in {0, 1} => pc # "poll"

\* C15, amended: exit code 1 does not fail the run but is not taken for
\* ready: after it the controller is still polling (or a later query
\* raised); the poll loop is left for the next step only after exit code 0.
C15_OnlyZeroIsReady ==
  /\ output = 1 => pc \in {"poll", "crashed"} /\ ~InLog("poll")
  /\ InLog("poll") => output = 0
  /\ output = 0 => InLog("poll")
  /\ pc = "poll" => output \in {-1, 1}

\* C15's case: the daemon has bound its socket, a status query was answered
\* with exit code 1 and the controller is about to query again.
C15_Witness ==
  /\ pc = "poll"
  /\ output = 1
  /\ socket = "bound"

\* The table of the call has a partition numbered k.
Present(k) == \E i \in 1..Len(arg.table) : arg.nums[i] = k

\* C16 as stated: the lookup returns exactly when the table has a partition
\* with the number asked for, and then that partition's extent; for any
\* other number (0, negative, above the highest, in a gap) it fails.
C16_LookupByNumber ==
  (entry = "get_offset_and_size" /\ pc # "call") =>
    /\ Present(arg.partition) => pc = "returned"
    /\ pc = "returned" =>
         \E i \in 1..Len(arg.table) :
           /\ arg.nums[i] = arg.partition
           /\ ret.value = arg.table[i]

\* C17 as stated: the controller is in the poll loop, and a status query
\* has been answered, only when the daemon's socket exists.
C17_WaitsForSocket ==
  (pc = "poll" \/ output # -1) => socket = "bound"

\* The places of preload(): expand_image to the release of the storage
\* mount, expand_ext4 on the storage partition among them.
InPreload ==
  \/ pc \in {"expand_image", "expand_partitions", "os_version_mount",
             "os_version_read", "os_version_umount", "mount_storage",
             "expand_btrfs", "start_daemon", "wait_socket", "poll",
             "write_apps_json", "docker_pull", "docker_images",
             "kill_daemon", "umount_storage"}
  \/ ext4.image = "image" /\ pc \in {"losetup", "e2fsck", "resize2fs", "losetup_d"}

\* C18: in a flasher run the outer image is mounted only after
\* resize_rootfs has rewritten the layout, migrated the partitions and
\* replaced the image; every step of preload() runs with that mount held;
\* the mount is released only after preload() has released the storage
\* mount, its last step.  A run that is not a flasher run takes no step of
\* resize_rootfs and never mounts the outer image.
C18_FlasherOrder ==
  entry = "main" =>
    /\ (flasher /\ InLog("mount_outer")) =>
         /\ MigrationSucceeded
         /\ FirstBefore("sfdisk_write", "mount_outer")
         /\ FirstBefore("copy_back", "copy_back_write")
         /\ FirstBefore("copy_back_write", "mount_outer")
         /\ image = tmp
    /\ (flasher /\ InPreload) => "outer" \in mounts
    /\ (flasher /\ InLog("mount_outer") /\ "outer" \notin mounts) =>
         /\ InLog("umount_outer")
         /\ FirstBefore("docker_pull", "umount_storage")
         /\ FirstBefore("umount_storage", "umount_outer")
    /\ ~flasher =>
         /\ \A e \in {"resize_rootfs", "get_sfdisk_script", "sfdisk_write",
                       "get_offsets", "copy", "copy_back", "copy_back_write",
                       "mount_outer", "umount_outer"} : ~InLog(e)
         /\ tmp = NoFile
         /\ "outer" \notin mounts

\* C18's case: a flasher run that came to its end, the inner image
\* preloaded and the outer mount released.
C18_Witness ==
  /\ flasher
  /\ pc = "done"
  /\ InLog("docker_pull")
  /\ InLog("umount_outer")
  /\ mounts = {}

\* C19: while the storage partition is mounted no loop device is bound, and
\* the daemon runs only while the storage partition is mounted; a run of
\* main() that completes has unbound the loop device of the offline resize
\* before it mounted the storage partition, has killed the daemon before it
\* unmounted the storage partition, has released the storage mount before
\* the outer one, and ends with no mount held, no loop device bound and no
\* daemon running.
C19_TeardownOrder ==
  entry = "main" =>
    /\ "storage" \in mounts => loops = {}
    /\ daemon = "Running" => "storage" \in mounts
    /\ pc = "done" =>
         /\ version_ge_2_of(version) =>
               /\ Before("losetup", "losetup_d")
               /\ Before("losetup_d", "mount_storage")
         /\ Before("mount_storage", "start_daemon")
         /\ Before("start_daemon", "kill_daemon")
         /\ Before("kill_daemon", "umount_storage")
         /\ flasher =>
               /\ Before("mount_outer", "mount_storage")
               /\ Before("umount_storage", "umount_outer")
         /\ mounts = {}
         /\ loops = {}
         /\ daemon = "Stopped"

\* C19's case: a completed run of the 2.0.0 variant, which bound a loop
\* device for the resize and started the daemon.
C19_Witness ==
  /\ entry = "main"
  /\ pc = "done"
  /\ version = <<2, 0, 0>>
  /\ InLog("losetup_d")
  /\ InLog("kill_daemon")
  /\ daemon = "Stopped"

\* The sectors [a, a + n) and [b, b + m) have none in common.
Disjoint(a, n, b, m) == a + n <= b \/ b + m <= a

\* The extents of the list are pairwise disjoint and lie within `bytes`.
Separate(list, bytes) ==
  /\ \A i \in 1..Len(list) : End(list[i]) * SECTOR_SIZE <= bytes
  /\ \A i, j \in 1..Len(list) :
       i # j => Disjoint(list[i].start, list[i].size,
                         list[j].start, list[j].size)

\* Where the copies of resize_rootfs write: seek= and count= of each dd.
Destinations ==
  [i \in 1..Len(offsets_and_sizes) |->
     [start |-> seek_of(i, offsets_and_sizes[i].start, additional_sectors),
      size |-> offsets_and_sizes[i].size]]

\* C20: when the extents parted lists for the old image are pairwise
\* disjoint and within the old image, the ranges the dd copies write in the
\* new image are pairwise disjoint and within the new image's size, which
\* the copies leave as it was truncated.
C20_DestinationsSeparate ==
  (pc \in {"copy", "losetup"} /\ ext4.image # "image"
     /\ Separate(offsets_and_sizes, orig.size)) =>
    /\ Separate(Destinations, size)
    /\ tmp.size = size
    /\ Len(tmp.data) = SectorsOf(size)

\* C20's case: three partitions copied, the third a sector or more further.
C20_Witness ==
  /\ pc = "copy"
  /\ copied = 3
  /\ additional_sectors >= 1
  /\ Separate(offsets_and_sizes, orig.size)
  /\ Destinations[3].start = orig.table[3].start + additional_sectors

====
